---- MODULE Spec2Model ----
(***************************************************************************)
(* A model of fairlearn.metrics.MetricFrame (src/fairlearn/metrics/        *)
(* _metric_frame.py): construction, the streaming accumulator (add_data,   *)
(* _concat_batches, _compute_streaming_metric), the grouping/masking       *)
(* engine (_compute_metric and below) and the read accessors.              *)
(*                                                                         *)
(* Python values are modelled as records with one uniform shape:           *)
(*   type  - "None", "list", "ndarray", "Series", "DataFrame" or "dict"    *)
(*   name  - the name of a pandas Series ("" when it has none)             *)
(*   data  - the scalars of a list / ndarray / Series                      *)
(*   keys  - the keys of a dict, in insertion order                        *)
(*   parts - the objects held by a list of objects, or a dict's values     *)
(***************************************************************************)
EXTENDS Integers, Sequences, FiniteSets, TLC

VARIABLES ctor, self, last, engine_runs, caller

vars == <<ctor, self, last, engine_runs, caller>>

(***************************************************************************)
(* Bounds of the model.                                                    *)
(***************************************************************************)
MaxBatches == 2   \* add_data calls that reach the buffers, per frame
MaxRuns == 2      \* complete engine runs counted between two add_data calls

(***************************************************************************)
(* Python values.                                                          *)
(***************************************************************************)
None == [type |-> "None", name |-> "", data |-> <<>>, keys |-> <<>>, parts |-> <<>>]

PyList(d) == [type |-> "list", name |-> "", data |-> d, keys |-> <<>>, parts |-> <<>>]

PyObjList(p) == [type |-> "list", name |-> "", data |-> <<>>, keys |-> <<>>, parts |-> p]

NdArray(d) == [type |-> "ndarray", name |-> "", data |-> d, keys |-> <<>>, parts |-> <<>>]

Series(n, d) == [type |-> "Series", name |-> n, data |-> d, keys |-> <<>>, parts |-> <<>>]

\* a pandas DataFrame of one column, named n
DataFrame(n, d) == [type |-> "DataFrame", name |-> n, data |-> d, keys |-> <<>>, parts |-> <<>>]

Dict(k, p) == [type |-> "dict", name |-> "", data |-> <<>>, keys |-> k, parts |-> p]

EmptyList == PyList(<<>>)

IsNone(x) == x.type = "None"

\* Python's len(): the number of elements of a sequence, of keys of a dict.
PyLen(x) == IF x.type = "dict" THEN Len(x.keys) ELSE Len(x.data) + Len(x.parts)

\* list.append(item)
Append_(lst, item) == [lst EXCEPT !.parts = Append(@, item)]

\* dict[k]; the caller checks HasKey first
HasKey(d, k) == \E i \in 1..Len(d.keys) : d.keys[i] = k

GetItem(d, k) == d.parts[CHOOSE i \in 1..Len(d.keys) : d.keys[i] = k]

SeqToSet(s) == {s[i] : i \in 1..Len(s)}

RECURSIVE Flatten(_)
Flatten(ss) == IF ss = <<>> THEN <<>> ELSE Head(ss) \o Flatten(Tail(ss))

(***************************************************************************)
(* Outcomes of a call: it returns, or it raises one of these errors.       *)
(***************************************************************************)
NoError == "none"

\* sklearn.utils.check_consistent_length(*arrays): arguments that are None
\* are skipped; the rest must all have one length.
check_consistent_length(arrays) ==
    LET lengths == {PyLen(arrays[i]) : i \in {j \in 1..Len(arrays) : ~IsNone(arrays[j])}}
    IN  IF Cardinality(lengths) > 1 THEN "InconsistentLength" ELSE NoError

\* _convert_to_ndarray_and_squeeze: a one-dimensional container of labels
\* becomes a one-dimensional ndarray with the same elements.
convert_to_ndarray_and_squeeze(target) == NdArray(target.data)

\* The outcome of a helper: the error it raised (NoError when it returned)
\* and the value it returned.
Ok(v) == [raised |-> NoError, val |-> v]

Raise(e) == [raised |-> e, val |-> None]

(***************************************************************************)
(* MetricFrame._concat_batches                                             *)
(***************************************************************************)
RECURSIVE concat_batches(_)
concat_batches(batches) ==
    IF IsNone(batches) THEN Raise("TypeError")
    ELSE IF PyLen(batches) = 0 THEN Raise("EmptyData")
    \* the items are labels, not batches: no branch takes them
    ELSE IF batches.parts = <<>> THEN Raise("CannotConcatenate")
    ELSE
    LET bs == batches.parts
        batch_type == bs[1].type
    IN  IF \E i \in 1..Len(bs) : bs[i].type # batch_type
        THEN Raise("IncompatibleBatchTypes")
        ELSE IF batch_type = "ndarray"
        THEN Ok(NdArray(Flatten([i \in 1..Len(bs) |-> bs[i].data])))
        ELSE IF batch_type = "list"
        THEN Ok([PyList(Flatten([i \in 1..Len(bs) |-> bs[i].data]))
                    EXCEPT !.parts = Flatten([i \in 1..Len(bs) |-> bs[i].parts])])
        ELSE IF batch_type = "DataFrame"
        \* assert all([col_nums == df.columns for df in batches])
        THEN IF \E i \in 1..Len(bs) : bs[i].name # bs[1].name
             THEN Raise("AssertionError")
             ELSE Ok(DataFrame(bs[1].name, Flatten([i \in 1..Len(bs) |-> bs[i].data])))
        ELSE IF batch_type = "dict"
        THEN LET ks == bs[1].keys
                 \* {k: self._concat_batches([batch[k] for batch in batches])}
                 item(j) ==
                     IF \E i \in 1..Len(bs) : ~HasKey(bs[i], ks[j])
                     THEN Raise("KeyError")
                     ELSE concat_batches(PyObjList(
                              [i \in 1..Len(bs) |-> GetItem(bs[i], ks[j])]))
                 bad == {j \in 1..Len(ks) : item(j).raised # NoError}
             IN  IF bad # {}
                 THEN Raise(item(CHOOSE j \in bad : \A k \in bad : j <= k).raised)
                 ELSE Ok(Dict(ks, [j \in 1..Len(ks) |-> item(j).val]))
        ELSE Raise("CannotConcatenate")

(***************************************************************************)
(* GroupFeature: a name, the sorted distinct values of the column          *)
(* (classes) and the column itself, from which the mask of a class is      *)
(* taken.                                                                  *)
(***************************************************************************)
RECURSIVE SortedSeq(_)
SortedSeq(S) ==
    IF S = {} THEN <<>>
    ELSE LET m == CHOOSE x \in S : \A y \in S : x <= y
         IN  <<m>> \o SortedSeq(S \ {m})

GroupFeature(base_name, feature_vector, index) ==
    [name    |-> IF feature_vector.type = "Series" /\ feature_vector.name # ""
                 THEN feature_vector.name
                 ELSE base_name \o ToString(index),
     classes |-> SortedSeq(SeqToSet(feature_vector.data)),
     col     |-> feature_vector.data]

\* GroupFeature.get_mask_for_class: the set of sample positions of the class
get_mask_for_class(feature, class) ==
    {i \in 1..Len(feature.col) : feature.col[i] = class}

(***************************************************************************)
(* MetricFrame._process_features, for the feature shapes of this model:    *)
(* a pandas Series, a DataFrame of one column with a string name, a list,  *)
(* and (the final branch) a 1-d ndarray.                                   *)
(***************************************************************************)
process_features(base_name, features, sample_array) ==
    IF features.type = "Series"
    THEN IF check_consistent_length(<<features, sample_array>>) # NoError
         THEN [raised |-> "InconsistentLength", val |-> <<>>]
         ELSE [raised |-> NoError, val |-> <<GroupFeature(base_name, features, 0)>>]
    ELSE IF features.type = "DataFrame"
    \* column = features.iloc[:, 0], a Series named as the column
    THEN IF check_consistent_length(<<features, sample_array>>) # NoError
         THEN [raised |-> "InconsistentLength", val |-> <<>>]
         ELSE [raised |-> NoError,
               val |-> <<GroupFeature(base_name, Series(features.name, features.data), 0)>>]
    ELSE IF features.type = "list"
    THEN IF PyLen(features) = 0
         THEN [raised |-> "IndexError", val |-> <<>>]
         ELSE IF features.parts # <<>>
         THEN [raised |-> "NonScalarFeatureList", val |-> <<>>]
         ELSE IF check_consistent_length(<<features, sample_array>>) # NoError
         THEN [raised |-> "InconsistentLength", val |-> <<>>]
         ELSE [raised |-> NoError, val |-> <<GroupFeature(base_name, features, 0)>>]
    ELSE IF check_consistent_length(<<features, sample_array>>) # NoError
         THEN [raised |-> "InconsistentLength", val |-> <<>>]
         ELSE [raised |-> NoError, val |-> <<GroupFeature(base_name, features, 0)>>]

(***************************************************************************)
(* Metric functions. A metric is a single callable or a dict of named      *)
(* callables:  [kind, names, fns].  The callables of this model:           *)
(*   count_correct(y_true, y_pred, sample_weight=None)                     *)
(*       the (weighted) number of samples with y_true = y_pred             *)
(*   count_selected(y_true, y_pred, sample_weight=None)                    *)
(*       the (weighted) number of samples with y_pred = 1                  *)
(*   needs_two_samples(y_true, y_pred, sample_weight=None)                 *)
(*       count_correct, but undefined on fewer than two samples, where it  *)
(*       raises (as statistics.variance does)                              *)
(* All check that their arguments have one length, as sklearn's metrics    *)
(* do, and accept no keyword other than sample_weight.                     *)
(***************************************************************************)
Callable(fn) == [kind |-> "callable", names |-> <<>>, fns |-> <<fn>>]

NamedMetrics(ns, fs) == [kind |-> "dict", names |-> ns, fns |-> fs]

RECURSIVE SumSeq(_)
SumSeq(s) == IF s = <<>> THEN 0 ELSE Head(s) + SumSeq(Tail(s))

\* a value of a result table: absent (NaN) or the rational num/den
NaN == [nan |-> TRUE, num |-> 0, den |-> 1]

Value(n) == [nan |-> FALSE, num |-> n, den |-> 1]

call_metric(fn, y_true, y_pred, params) ==
    IF \E j \in 1..Len(params.keys) : params.keys[j] # "sample_weight"
    THEN [raised |-> "TypeError", val |-> NaN]
    ELSE
    LET w == IF HasKey(params, "sample_weight")
             THEN GetItem(params, "sample_weight").data
             ELSE [i \in 1..Len(y_true) |-> 1]
    IN  IF Len(y_pred) # Len(y_true) \/ Len(w) # Len(y_true)
        THEN [raised |-> "InconsistentLength", val |-> NaN]
        ELSE IF fn = "needs_two_samples" /\ Len(y_true) < 2
        THEN [raised |-> "StatisticsError", val |-> NaN]
        ELSE [raised |-> NoError,
              val |-> Value(SumSeq([i \in 1..Len(y_true) |->
                         IF fn = "count_selected"
                         THEN (IF y_pred[i] = 1 THEN w[i] ELSE 0)
                         ELSE IF fn = "signed_error"
                         THEN w[i] * (y_pred[i] - y_true[i])
                         ELSE (IF y_true[i] = y_pred[i] THEN w[i] ELSE 0)]))]

(***************************************************************************)
(* FunctionContainer: one metric function, its name and its sample         *)
(* parameters (a dict of per-sample arrays, empty when none were given).   *)
(***************************************************************************)
FunctionContainer(func, name, sample_params) ==
    IF ~IsNone(sample_params) /\ sample_params.type # "dict"
    THEN [raised |-> "InvalidSampleParams", val |-> <<>>]
    ELSE [raised |-> NoError,
          val |-> <<[name_ |-> IF name = "" THEN func ELSE name,
                     func_ |-> func,
                     sample_params_ |-> IF IsNone(sample_params)
                                        THEN Dict(<<>>, <<>>)
                                        ELSE sample_params]>>]

\* FunctionContainer.evaluate_all: the function over the whole dataset
evaluate_all(fc, y_true, y_pred) ==
    call_metric(fc.func_, y_true.data, y_pred.data, fc.sample_params_)

\* array[mask] for a boolean mask of mask_len entries
SelectSeq_(s, mask) ==
    LET idx == SortedSeq(mask) IN [i \in 1..Len(idx) |-> s[idx[i]]]

\* FunctionContainer.evaluate: the function over the masked samples, the
\* sample parameters sliced by the same mask
evaluate(fc, y_true, y_pred, mask, mask_len) ==
    LET sp == fc.sample_params_ IN
    IF Len(y_true.data) # mask_len \/ Len(y_pred.data) # mask_len
       \/ \E j \in 1..Len(sp.keys) : Len(sp.parts[j].data) # mask_len
    THEN [raised |-> "IndexError", val |-> NaN]
    ELSE call_metric(fc.func_, SelectSeq_(y_true.data, mask),
                     SelectSeq_(y_pred.data, mask),
                     Dict(sp.keys, [j \in 1..Len(sp.keys) |->
                              PyList(SelectSeq_(sp.parts[j].data, mask))]))

(***************************************************************************)
(* MetricFrame._process_functions: the result carries the value it         *)
(* assigns to self._user_supplied_callable and the func_dict it returns.   *)
(***************************************************************************)
process_functions(metric, sample_params) ==
    IF metric.kind = "dict"
    THEN IF ~IsNone(sample_params) /\ sample_params.type # "dict"
         THEN [raised |-> "InvalidSampleParams", usc |-> FALSE, val |-> <<>>]
         ELSE IF ~IsNone(sample_params)
                 /\ ~(SeqToSet(sample_params.keys) \subseteq SeqToSet(metric.names))
         THEN [raised |-> "SampleParamKeysNotInFuncDict", usc |-> FALSE, val |-> <<>>]
         ELSE
         LET s_p == IF IsNone(sample_params) THEN Dict(<<>>, <<>>) ELSE sample_params
             fc(j) == FunctionContainer(metric.fns[j], metric.names[j],
                          IF HasKey(s_p, metric.names[j])
                          THEN GetItem(s_p, metric.names[j]) ELSE None)
             bad == {j \in 1..Len(metric.names) : fc(j).raised # NoError}
         IN  IF bad # {}
             THEN [raised |-> "InvalidSampleParams", usc |-> FALSE, val |-> <<>>]
             ELSE [raised |-> NoError, usc |-> FALSE,
                   val |-> [j \in 1..Len(metric.names) |-> fc(j).val[1]]]
    ELSE LET fc == FunctionContainer(metric.fns[1], "", sample_params)
         IN  [raised |-> fc.raised, usc |-> TRUE, val |-> fc.val]

(***************************************************************************)
(* Result tables (pandas Series / DataFrame):                              *)
(*   levels  - the names of the row index levels (feature names)           *)
(*   index   - the row keys, each a tuple of feature classes               *)
(*   columns - the function names                                          *)
(*   cells   - cells[r][c], the value at row r and column c                *)
(* A Series indexed by the function names is one row with the key <<>>.    *)
(***************************************************************************)
NoTable == [type |-> "None", levels |-> <<>>, index |-> <<>>, columns |-> <<>>,
            cells |-> <<>>]

\* pd.MultiIndex.from_product: the first level is the outermost
RECURSIVE Product(_)
Product(cls) ==
    IF cls = <<>> THEN << <<>> >>
    ELSE LET rest == Product(Tail(cls))
         IN  Flatten([i \in 1..Len(Head(cls)) |->
                         [j \in 1..Len(rest) |-> <<Head(cls)[i]>> \o rest[j]]])

\* _mask_from_tuple taking the mask of the last feature alone
mask_from_tuple_last(index_tuple, feature_list) ==
    get_mask_for_class(feature_list[Len(feature_list)], index_tuple[Len(index_tuple)])

\* MetricFrame._mask_from_tuple: the logical AND of the features' masks
RECURSIVE mask_from_tuple(_, _)
mask_from_tuple(index_tuple, feature_list) ==
    IF Len(index_tuple) = 1
    THEN get_mask_for_class(feature_list[1], index_tuple[1])
    ELSE mask_from_tuple(SubSeq(index_tuple, 1, Len(index_tuple) - 1),
                         SubSeq(feature_list, 1, Len(feature_list) - 1))
         \cap get_mask_for_class(feature_list[Len(feature_list)],
                                 index_tuple[Len(index_tuple)])

\* _compute_dataframe_from_rows, given the metric values cell[f][r] of every
\* function f and row r: the first call that raised ends the computation
dataframe_from_cells(func_dict, rows, row_index, cell) ==
    LET bad == {fr \in (1..Len(func_dict)) \X (1..Len(row_index)) :
                   cell[fr[1]][fr[2]].raised # NoError}
        first == CHOOSE fr \in bad : \A o \in bad :
                     fr[1] < o[1] \/ (fr[1] = o[1] /\ fr[2] <= o[2])
    IN  IF bad # {}
        THEN [raised |-> cell[first[1]][first[2]].raised, val |-> NoTable]
        ELSE [raised |-> NoError,
              val |-> [type |-> "DataFrame",
                       levels |-> [i \in 1..Len(rows) |-> rows[i].name],
                       index |-> row_index,
                       columns |-> [f \in 1..Len(func_dict) |-> func_dict[f].name_],
                       cells |-> [r \in 1..Len(row_index) |->
                                    [f \in 1..Len(func_dict) |-> cell[f][r].val]]]]

\* dataframe_from_index as it would be if the metric function were called
\* for every row, whatever its mask
dataframe_from_index_unmasked(func_dict, y_true, y_pred, rows, row_index) ==
    dataframe_from_cells(func_dict, rows, row_index,
        [f \in 1..Len(func_dict) |->
            [r \in 1..Len(row_index) |->
                evaluate(func_dict[f], y_true, y_pred,
                         mask_from_tuple(row_index[r], rows), Len(rows[1].col))]])

\* _compute_dataframe_from_rows, given the index of the result
dataframe_from_index(func_dict, y_true, y_pred, rows, row_index) ==
    dataframe_from_cells(func_dict, rows, row_index,
        [f \in 1..Len(func_dict) |->
            [r \in 1..Len(row_index) |->
                \* Only call the metric function if the mask is non-empty
                IF Cardinality(mask_from_tuple(row_index[r], rows)) > 0
                THEN evaluate(func_dict[f], y_true, y_pred,
                              mask_from_tuple(row_index[r], rows), Len(rows[1].col))
                ELSE [raised |-> NoError, val |-> NaN]]])

\* MetricFrame._compute_dataframe_from_rows
compute_dataframe_from_rows(func_dict, y_true, y_pred, rows) ==
    dataframe_from_index(func_dict, y_true, y_pred, rows,
                         Product([i \in 1..Len(rows) |-> rows[i].classes]))

\* MetricFrame._compute_overall; cf_none stands for "cf_list is None"
compute_overall(func_dict, y_true, y_pred, cf_none, cf_list) ==
    IF cf_none
    THEN LET value(f) == evaluate_all(func_dict[f], y_true, y_pred)
             bad == {f \in 1..Len(func_dict) : value(f).raised # NoError}
         IN  IF bad # {}
             THEN [raised |-> value(CHOOSE f \in bad : \A g \in bad : f <= g).raised,
                   val |-> NoTable]
             ELSE [raised |-> NoError,
                   val |-> [type |-> "Series", levels |-> <<>>, index |-> << <<>> >>,
                            columns |-> [f \in 1..Len(func_dict) |-> func_dict[f].name_],
                            cells |-> <<[f \in 1..Len(func_dict) |-> value(f).val]>>]]
    ELSE compute_dataframe_from_rows(func_dict, y_true, y_pred, cf_list)

\* MetricFrame._compute_by_group: the control features come first
compute_by_group(func_dict, y_true, y_pred, sf_list, cf_none, cf_list) ==
    compute_dataframe_from_rows(func_dict, y_true, y_pred,
        IF cf_none THEN sf_list ELSE cf_list \o sf_list)

(***************************************************************************)
(* The MetricFrame object. _sf_names and _cf_names are None or a list of   *)
(* names; func_dict and _user_supplied_callable hold their defaults until  *)
(* _compute_metric assigns them.                                           *)
(***************************************************************************)
NoNames == [none |-> TRUE, names |-> <<>>]

Names(ns) == [none |-> FALSE, names |-> ns]

NoFrame ==
    [alive |-> FALSE, streaming |-> FALSE, metric |-> Callable("count_correct"),
     y_true |-> None, y_pred |-> None, s_f |-> None, c_f |-> None, s_p |-> None,
     overall |-> NoTable, by_group |-> NoTable,
     sf_names |-> NoNames, cf_names |-> NoNames,
     func_dict |-> <<>>, user_supplied_callable |-> FALSE]

HasDuplicate(namelist) ==
    \E i, j \in 1..Len(namelist) : i < j /\ namelist[i] = namelist[j]

\* _compute_metric stops at the error e and leaves the object as slf
Stopped(e, slf) == [raised |-> e, self |-> slf, ran |-> FALSE]

FeatureNames(features) == [i \in 1..Len(features) |-> features[i].name]

\* _compute_metric from self._by_group = self._compute_by_group(...) on
compute_metric_by_group(s5, bg) ==
    IF bg.raised # NoError THEN Stopped(bg.raised, s5)
    ELSE [raised |-> NoError, self |-> [s5 EXCEPT !.by_group = bg.val], ran |-> TRUE]

\* _compute_metric from self._overall = self._compute_overall(...) on
compute_metric_overall(s4, y_t, y_p, sf_list, cf_none, cf_list, ov) ==
    IF ov.raised # NoError THEN Stopped(ov.raised, s4)
    ELSE compute_metric_by_group([s4 EXCEPT !.overall = ov.val],
             compute_by_group(s4.func_dict, y_t, y_p, sf_list, cf_none, cf_list))

\* _compute_metric from func_dict = self._process_functions(...) on
compute_metric_functions(s2, y_t, y_p, sf_list, cf_none, cf_list, pf) ==
    IF pf.raised # NoError
    THEN Stopped(pf.raised, [s2 EXCEPT !.user_supplied_callable = pf.usc])
    ELSE compute_metric_overall(
             [s2 EXCEPT !.user_supplied_callable = pf.usc, !.func_dict = pf.val],
             y_t, y_p, sf_list, cf_none, cf_list,
             compute_overall(pf.val, y_t, y_p, cf_none, cf_list))

\* _compute_metric without its check for duplicate feature names
compute_metric_names_unchecked(s2, y_t, y_p, s_p, sf_list, cf_none, cf_list) ==
    compute_metric_functions(s2, y_t, y_p, sf_list, cf_none, cf_list,
                             process_functions(s2.metric, s_p))

\* _compute_metric from the check for duplicate feature names on
compute_metric_names(s2, y_t, y_p, s_p, sf_list, cf_none, cf_list) ==
    IF HasDuplicate(s2.sf_names.names \o s2.cf_names.names)
    THEN Stopped("DuplicateFeatureName", s2)
    ELSE compute_metric_functions(s2, y_t, y_p, sf_list, cf_none, cf_list,
                                  process_functions(s2.metric, s_p))

\* _compute_metric from "if c_f is not None" on; cf is the outcome of
\* _process_features on the control features
compute_metric_control(s1, y_t, y_p, c_f, s_p, sf_list, cf) ==
    IF cf.raised # NoError THEN Stopped(cf.raised, s1)
    ELSE compute_metric_names(
             IF IsNone(c_f) THEN s1
             ELSE [s1 EXCEPT !.cf_names = Names(FeatureNames(cf.val))],
             y_t, y_p, s_p, sf_list, IsNone(c_f), cf.val)

\* _compute_metric from self._sf_names = ... on; sf is the outcome of
\* _process_features on the sensitive features
compute_metric_sensitive(slf, y_t, y_p, c_f, s_p, sf) ==
    IF sf.raised # NoError THEN Stopped(sf.raised, slf)
    ELSE compute_metric_control(
             [slf EXCEPT !.sf_names = Names(FeatureNames(sf.val)),
                         !.cf_names = NoNames],
             y_t, y_p, c_f, s_p, sf.val,
             IF IsNone(c_f) THEN [raised |-> NoError, val |-> <<>>]
             ELSE process_features("control_feature_", c_f, y_t))

\* MetricFrame._compute_metric: the error raised, the object as the call
\* leaves it, and whether the engine ran to its end (overall and by_group
\* were both computed)
compute_metric(slf, y_t, y_p, s_f, c_f, s_p) ==
    compute_metric_sensitive(slf, y_t, y_p, c_f, s_p,
                             process_features("sensitive_feature_", s_f, y_t))

\* _compute_streaming_metric, given the outcomes of the five _concat_batches
concat_then_compute(slf, args) ==
    LET bad == {i \in 1..5 : args[i].raised # NoError}
    IN  IF bad # {}
        THEN Stopped(args[CHOOSE i \in bad : \A j \in bad : i <= j].raised, slf)
        ELSE compute_metric(slf, args[1].val, args[2].val, args[3].val,
                            args[4].val, args[5].val)

\* MetricFrame._compute_streaming_metric
compute_streaming_metric(slf) ==
    concat_then_compute(slf,
        << concat_batches(slf.y_true),
           concat_batches(slf.y_pred),
           concat_batches(slf.s_f),
           IF ~IsNone(slf.c_f) /\ PyLen(slf.c_f) > 0
           THEN concat_batches(slf.c_f) ELSE Ok(None),
           IF slf.s_p.type = "dict" \/ IsNone(slf.s_p)
           THEN Ok(slf.s_p) ELSE concat_batches(slf.s_p) >>)

\* __init__ as it would be if a streaming frame did not validate control_features
init_cf_unchecked(metric, y_true, y_pred, sensitive_features, control_features, sample_params, streaming) ==
    LET s0 == [NoFrame EXCEPT !.alive = TRUE, !.s_f = sensitive_features,
                              !.c_f = control_features, !.s_p = sample_params,
                              !.streaming = streaming, !.metric = metric]
    IN  IF ~streaming /\ \E arg \in {y_true, y_pred, sensitive_features} :
                             IsNone(arg) \/ PyLen(arg) = 0
        THEN [raised |-> "BadInit", self |-> NoFrame, ran |-> FALSE]
        ELSE IF ~streaming
        THEN IF check_consistent_length(<<y_true, y_pred>>) # NoError
             THEN [raised |-> "InconsistentLength", self |-> NoFrame, ran |-> FALSE]
             ELSE LET r == compute_metric(s0, convert_to_ndarray_and_squeeze(y_true),
                                          convert_to_ndarray_and_squeeze(y_pred),
                                          sensitive_features, control_features,
                                          sample_params)
                  IN  IF r.raised # NoError
                      THEN [raised |-> r.raised, self |-> NoFrame, ran |-> r.ran]
                      ELSE r
        ELSE IF \E acc \in {y_true, y_pred, sensitive_features} : acc # EmptyList
        THEN [raised |-> "NonEmptyInit", self |-> NoFrame, ran |-> FALSE]
        ELSE [raised |-> NoError,
              self |-> [s0 EXCEPT !.y_true = EmptyList, !.y_pred = EmptyList,
                                  !.overall = NoTable, !.by_group = NoTable],
              ran |-> FALSE]

\* MetricFrame.__init__
init(metric, y_true, y_pred, sensitive_features, control_features, sample_params, streaming) ==
    LET s0 == [NoFrame EXCEPT !.alive = TRUE, !.s_f = sensitive_features,
                              !.c_f = control_features, !.s_p = sample_params,
                              !.streaming = streaming, !.metric = metric]
    IN  IF ~streaming /\ \E arg \in {y_true, y_pred, sensitive_features} :
                             IsNone(arg) \/ PyLen(arg) = 0
        THEN [raised |-> "BadInit", self |-> NoFrame, ran |-> FALSE]
        ELSE IF ~streaming
        THEN IF check_consistent_length(<<y_true, y_pred>>) # NoError
             THEN [raised |-> "InconsistentLength", self |-> NoFrame, ran |-> FALSE]
             ELSE LET r == compute_metric(s0, convert_to_ndarray_and_squeeze(y_true),
                                          convert_to_ndarray_and_squeeze(y_pred),
                                          sensitive_features, control_features,
                                          sample_params)
                  IN  IF r.raised # NoError
                      THEN [raised |-> r.raised, self |-> NoFrame, ran |-> r.ran]
                      ELSE r
        ELSE IF (\E acc \in {y_true, y_pred, sensitive_features} : acc # EmptyList)
                \/ ~(control_features \in {None, EmptyList})
        THEN [raised |-> "NonEmptyInit", self |-> NoFrame, ran |-> FALSE]
        ELSE [raised |-> NoError,
              self |-> [s0 EXCEPT !.y_true = EmptyList, !.y_pred = EmptyList,
                                  !.overall = NoTable, !.by_group = NoTable],
              ran |-> FALSE]

\* add_data as it would be without the check of self._streaming
add_data_unguarded(slf, y_true, y_pred, sensitive_features, control_features, sample_params) ==
    LET y_t == convert_to_ndarray_and_squeeze(y_true)
        y_p == convert_to_ndarray_and_squeeze(y_pred)
        s1 == [slf EXCEPT !.y_true = Append_(@, y_t), !.y_pred = Append_(@, y_p),
                          !.s_f = Append_(@, sensitive_features)]
        s2 == IF ~IsNone(slf.c_f)
              THEN [s1 EXCEPT !.c_f = Append_(@, control_features)] ELSE s1
        s3 == IF IsNone(sample_params) THEN s2
              ELSE IF IsNone(s2.s_p)
              THEN [s2 EXCEPT !.s_p = PyObjList(<<sample_params>>)]
              ELSE [s2 EXCEPT !.s_p = Append_(@, sample_params)]
        \* Reset metric
        s4 == [s3 EXCEPT !.overall = NoTable, !.by_group = NoTable]
    IN  IF check_consistent_length(<<y_true, y_pred, sensitive_features>>) # NoError
        THEN [raised |-> "InconsistentLength", self |-> slf]
        ELSE IF ~IsNone(slf.c_f)
                /\ check_consistent_length(<<y_true, control_features>>) # NoError
        THEN [raised |-> "InconsistentLength", self |-> s1]
        ELSE IF IsNone(slf.c_f) /\ ~IsNone(control_features)
        THEN [raised |-> "InconsistentControlFeatureUsage", self |-> s1]
        ELSE IF ~IsNone(sample_params)
                /\ check_consistent_length(<<y_true>> \o sample_params.parts) # NoError
        THEN [raised |-> "InconsistentLength", self |-> s2]
        ELSE IF ~IsNone(sample_params) /\ ~IsNone(s2.s_p) /\ s2.s_p.type # "list"
        THEN [raised |-> "InconsistentSampleParams", self |-> s2]
        ELSE IF IsNone(sample_params) /\ s2.s_p.type = "list"
        THEN [raised |-> "InconsistentSampleParams", self |-> s2]
        ELSE [raised |-> NoError, self |-> s4]

\* MetricFrame.add_data
add_data(slf, y_true, y_pred, sensitive_features, control_features, sample_params) ==
    LET y_t == convert_to_ndarray_and_squeeze(y_true)
        y_p == convert_to_ndarray_and_squeeze(y_pred)
        s1 == [slf EXCEPT !.y_true = Append_(@, y_t), !.y_pred = Append_(@, y_p),
                          !.s_f = Append_(@, sensitive_features)]
        s2 == IF ~IsNone(slf.c_f)
              THEN [s1 EXCEPT !.c_f = Append_(@, control_features)] ELSE s1
        s3 == IF IsNone(sample_params) THEN s2
              ELSE IF IsNone(s2.s_p)
              THEN [s2 EXCEPT !.s_p = PyObjList(<<sample_params>>)]
              ELSE [s2 EXCEPT !.s_p = Append_(@, sample_params)]
        \* Reset metric
        s4 == [s3 EXCEPT !.overall = NoTable, !.by_group = NoTable]
    IN  IF ~slf.streaming THEN [raised |-> "StateError", self |-> slf]
        ELSE IF check_consistent_length(<<y_true, y_pred, sensitive_features>>) # NoError
        THEN [raised |-> "InconsistentLength", self |-> slf]
        ELSE IF ~IsNone(slf.c_f)
                /\ check_consistent_length(<<y_true, control_features>>) # NoError
        THEN [raised |-> "InconsistentLength", self |-> s1]
        ELSE IF IsNone(slf.c_f) /\ ~IsNone(control_features)
        THEN [raised |-> "InconsistentControlFeatureUsage", self |-> s1]
        ELSE IF ~IsNone(sample_params)
                /\ check_consistent_length(<<y_true>> \o sample_params.parts) # NoError
        THEN [raised |-> "InconsistentLength", self |-> s2]
        ELSE IF ~IsNone(sample_params) /\ ~IsNone(s2.s_p) /\ s2.s_p.type # "list"
        THEN [raised |-> "InconsistentSampleParams", self |-> s2]
        ELSE IF IsNone(sample_params) /\ s2.s_p.type = "list"
        THEN [raised |-> "InconsistentSampleParams", self |-> s2]
        ELSE [raised |-> NoError, self |-> s4]

(***************************************************************************)
(* pandas operations on result tables.                                     *)
(***************************************************************************)
\* a <= b for two present values (den >= 0; den = 0 is an infinity)
Leq(a, b) == a.num * b.den <= b.num * a.den

\* Series.max() / Series.min(): absent values are skipped
AggCells(cs, agg) ==
    LET present == {i \in 1..Len(cs) : ~cs[i].nan}
    IN  IF present = {} THEN NaN
        ELSE IF agg = "max"
        THEN cs[CHOOSE i \in present : \A j \in present : Leq(cs[j], cs[i])]
        ELSE cs[CHOOSE i \in present : \A j \in present : Leq(cs[i], cs[j])]

\* the distinct elements of a sequence, in order of first occurrence
RECURSIVE Distinct(_)
Distinct(s) ==
    IF s = <<>> THEN <<>>
    ELSE LET d == Distinct(SubSeq(s, 1, Len(s) - 1))
         IN  IF s[Len(s)] \in SeqToSet(d) THEN d ELSE Append(d, s[Len(s)])

\* table.groupby(level = the first k levels).max() / .min()
GroupByLevels(tbl, k, agg) ==
    LET keys == Distinct([r \in 1..Len(tbl.index) |-> SubSeq(tbl.index[r], 1, k)])
        members(key) == {r \in 1..Len(tbl.index) : SubSeq(tbl.index[r], 1, k) = key}
        col(key, f) == LET m == SortedSeq(members(key))
                       IN  [i \in 1..Len(m) |-> tbl.cells[m[i]][f]]
    IN  [type |-> "DataFrame", levels |-> SubSeq(tbl.levels, 1, k), index |-> keys,
         columns |-> tbl.columns,
         cells |-> [i \in 1..Len(keys) |->
                      [f \in 1..Len(tbl.columns) |-> AggCells(col(keys[i], f), agg)]]]

\* a Series indexed by the columns, each the max / min of the whole column
AggColumns(tbl, agg) ==
    [type |-> "Series", levels |-> <<>>, index |-> << <<>> >>, columns |-> tbl.columns,
     cells |-> <<[f \in 1..Len(tbl.columns) |->
                    AggCells([r \in 1..Len(tbl.index) |-> tbl.cells[r][f]], agg)]>>]

\* table.iloc[:, 0]: the first column, as a Series over the rows
FirstColumn(tbl) ==
    [type |-> "Series", levels |-> tbl.levels, index |-> tbl.index, columns |-> <<>>,
     cells |-> [r \in 1..Len(tbl.index) |-> <<tbl.cells[r][1]>>]]

\* series.iloc[0]: the first element, a bare value
FirstElement(tbl) ==
    [type |-> "scalar", levels |-> <<>>, index |-> <<>>, columns |-> <<>>,
     cells |-> << <<tbl.cells[1][1]>> >>]

(***************************************************************************)
(* The read accessors. Each yields the error raised, the object as the     *)
(* call leaves it, the number of complete engine runs it made, and what it *)
(* returns (a table in ret, or a list of names in names).                  *)
(***************************************************************************)
Returned(slf, runs, ret, names) ==
    [raised |-> NoError, self |-> slf, runs |-> runs, ret |-> ret, names |-> names]

Raised(e, slf, runs) ==
    [raised |-> e, self |-> slf, runs |-> runs, ret |-> NoTable, names |-> NoNames]

\* the outcome of _compute_streaming_metric, as the accessors use it
AsRuns(c) == [raised |-> c.raised, self |-> c.self, runs |-> IF c.ran THEN 1 ELSE 0]

\* ComputeIf as it would be if the accessors did not look at the cache
ComputeAlways(stale, slf) == AsRuns(compute_streaming_metric(slf))

\* "if <cache> is None: self._compute_streaming_metric()"
ComputeIf(stale, slf) ==
    IF stale THEN AsRuns(compute_streaming_metric(slf))
    ELSE [raised |-> NoError, self |-> slf, runs |-> 0]

\* MetricFrame.control_levels, after its cache check (outcome c)
control_levels_then(c) ==
    IF c.raised # NoError THEN Raised(c.raised, c.self, c.runs)
    ELSE Returned(c.self, c.runs, NoTable, c.self.cf_names)

\* MetricFrame.control_levels
control_levels(slf) == control_levels_then(ComputeIf(slf.overall = NoTable, slf))

\* MetricFrame.sensitive_levels, after its cache check (outcome c)
sensitive_levels_then(c) ==
    IF c.raised # NoError THEN Raised(c.raised, c.self, c.runs)
    ELSE Returned(c.self, c.runs, NoTable, c.self.sf_names)

\* sensitive_levels as it would be if it returned _sf_names as they are
sensitive_levels_unchecked(slf) == Returned(slf, 0, NoTable, slf.sf_names)

\* MetricFrame.sensitive_levels
sensitive_levels(slf) == sensitive_levels_then(ComputeIf(slf.sf_names.none, slf))

\* Shaped as it would be if the function-name axis were never collapsed
Shaped_retaining(c, cl, result) ==
    IF cl.raised # NoError THEN Raised(cl.raised, cl.self, c.runs + cl.runs)
    ELSE Returned(cl.self, c.runs + cl.runs, result, NoNames)

\* the result of an accessor in the shape the caller gets, given the outcome
\* c of the cache check and the outcome cl of reading self.control_levels
Shaped(c, cl, result) ==
    IF cl.raised # NoError THEN Raised(cl.raised, cl.self, c.runs + cl.runs)
    ELSE IF ~cl.self.user_supplied_callable
    THEN Returned(cl.self, c.runs + cl.runs, result, NoNames)
    ELSE IF cl.names.names # <<>>
    THEN Returned(cl.self, c.runs + cl.runs, FirstColumn(result), NoNames)
    ELSE Returned(cl.self, c.runs + cl.runs, FirstElement(result), NoNames)

\* MetricFrame.overall, after its cache check (outcome c)
overall_then(c) ==
    IF c.raised # NoError THEN Raised(c.raised, c.self, c.runs)
    ELSE IF ~c.self.user_supplied_callable
    THEN Returned(c.self, c.runs, c.self.overall, NoNames)
    ELSE Shaped(c, control_levels(c.self), c.self.overall)

\* MetricFrame.overall
overall(slf) == overall_then(ComputeIf(slf.overall = NoTable, slf))

\* MetricFrame.by_group, after its cache check (outcome c)
by_group_then(c) ==
    IF c.raised # NoError THEN Raised(c.raised, c.self, c.runs)
    ELSE IF c.self.user_supplied_callable
    THEN Returned(c.self, c.runs, FirstColumn(c.self.by_group), NoNames)
    ELSE Returned(c.self, c.runs, c.self.by_group, NoNames)

\* MetricFrame.by_group
by_group(slf) == by_group_then(ComputeIf(slf.by_group = NoTable, slf))

\* the max / min of by_group over the sensitive features, given the outcome
\* cl of reading self.control_levels
group_agg_result(cl, agg) ==
    IF cl.raised # NoError THEN NoTable
    ELSE IF cl.names.names = <<>>
    THEN AggColumns(cl.self.by_group, agg)
    ELSE GroupByLevels(cl.self.by_group, Len(cl.names.names), agg)

group_agg_shaped(c, cl, agg) == Shaped(c, cl, group_agg_result(cl, agg))

\* MetricFrame.group_max / group_min, after the cache check (outcome c)
group_agg_then(c, agg) ==
    IF c.raised # NoError THEN Raised(c.raised, c.self, c.runs)
    ELSE group_agg_shaped(c, control_levels(c.self), agg)

\* MetricFrame.group_max (agg = "max") and MetricFrame.group_min ("min")
group_agg(slf, agg) == group_agg_then(ComputeIf(slf.by_group = NoTable, slf), agg)

group_max(slf) == group_agg(slf, "max")

group_min(slf) == group_agg(slf, "min")

(***************************************************************************)
(* Arithmetic on table values (numpy semantics: an absent operand gives an *)
(* absent result, x / 0 is an infinity and 0 / 0 is absent).               *)
(***************************************************************************)
Sign(n) == IF n > 0 THEN 1 ELSE IF n < 0 THEN -1 ELSE 0

AbsInt(n) == IF n < 0 THEN -n ELSE n

Sub(a, b) ==
    IF a.nan \/ b.nan THEN NaN
    ELSE [nan |-> FALSE, num |-> a.num * b.den - b.num * a.den, den |-> a.den * b.den]

AbsValue(a) == IF a.nan THEN NaN ELSE [a EXCEPT !.num = AbsInt(@)]

Div(a, b) ==
    IF a.nan \/ b.nan \/ (a.num = 0 /\ b.num = 0) \/ (a.den = 0 /\ b.den = 0) THEN NaN
    ELSE IF b.num = 0 THEN [nan |-> FALSE, num |-> Sign(a.num), den |-> 0]
    ELSE [nan |-> FALSE, num |-> a.num * b.den * Sign(b.num),
          den |-> a.den * AbsInt(b.num)]

Inverse(a) == Div(Value(1), a)

\* Python's min(x, 1 / x): the second argument only when it is smaller
MinWithInverse(x) ==
    IF x.nan THEN NaN
    ELSE IF Leq(Inverse(x), x) /\ ~Leq(x, Inverse(x)) THEN Inverse(x) ELSE x

\* ratio_sub_one, the helper local to MetricFrame.ratio
ratio_sub_one(x) ==
    IF x.nan THEN NaN
    ELSE IF Leq(Value(1), x) /\ ~Leq(x, Value(1)) THEN Inverse(x) ELSE x

\* the row of a table indexed by control strata that a by_group row with the
\* given key aligns to (k control levels; with k = 0 the only row)
AlignedRow(tbl, key, k) ==
    CHOOSE i \in 1..Len(tbl.index) : tbl.index[i] = SubSeq(key, 1, k)

\* by_group (op) other, other aligned on the control levels, then f applied
\* to each cell
Combine(bg, other, k, op, f) ==
    [bg EXCEPT !.cells =
        [r \in 1..Len(bg.index) |->
            [c \in 1..Len(bg.columns) |->
                LET o == other.cells[AlignedRow(other, bg.index[r], k)][c]
                    v == IF op = "sub" THEN Sub(bg.cells[r][c], o)
                         ELSE Div(bg.cells[r][c], o)
                IN  IF f = "abs" THEN AbsValue(v)
                    ELSE IF f = "min_inverse" THEN MinWithInverse(v)
                    ELSE ratio_sub_one(v)]]]

\* the max / min of a by_group-shaped table across the sensitive features,
\* per control stratum, in the shape the accessors return
Across(slf, tbl, k, agg) ==
    LET result == IF k = 0 THEN AggColumns(tbl, agg) ELSE GroupByLevels(tbl, k, agg)
    IN  IF ~slf.user_supplied_callable THEN result
        ELSE IF k # 0 THEN FirstColumn(result)
        ELSE FirstElement(result)

\* difference taking the smallest rather than the largest absolute difference
difference_by_group_smallest(c, g, method) ==
    LET k == Len(g.self.cf_names.names)
        bg == g.self.by_group
        subtrahend == IF method = "between_groups"
                      THEN (IF k = 0 THEN AggColumns(bg, "min")
                            ELSE GroupByLevels(bg, k, "min"))
                      ELSE g.self.overall
    IN  IF g.raised # NoError THEN Raised(g.raised, g.self, c.runs + g.runs)
        ELSE Returned(g.self, c.runs + g.runs,
                      Across(g.self, Combine(bg, subtrahend, k, "sub", "abs"), k, "min"),
                      NoNames)

\* MetricFrame.difference, after the subtrahend and self.by_group were read:
\* g is the outcome of the cache check of by_group that group_min() or the
\* by_group property makes
difference_by_group(c, g, method) ==
    LET k == Len(g.self.cf_names.names)
        bg == g.self.by_group
        subtrahend == IF method = "between_groups"
                      THEN (IF k = 0 THEN AggColumns(bg, "min")
                            ELSE GroupByLevels(bg, k, "min"))
                      ELSE g.self.overall
    IN  IF g.raised # NoError THEN Raised(g.raised, g.self, c.runs + g.runs)
        ELSE Returned(g.self, c.runs + g.runs,
                      Across(g.self, Combine(bg, subtrahend, k, "sub", "abs"), k, "max"),
                      NoNames)

\* MetricFrame.difference, after its cache check (outcome c)
difference_then(c, method) ==
    IF c.raised # NoError THEN Raised(c.raised, c.self, c.runs)
    ELSE IF method \notin {"between_groups", "to_overall"}
    THEN Raised("InvalidAggregationMethod", c.self, c.runs)
    ELSE difference_by_group(c, ComputeIf(c.self.by_group = NoTable, c.self), method)

\* MetricFrame.difference
difference(slf, method) == difference_then(ComputeIf(slf.overall = NoTable, slf), method)

\* group_min() / group_max(), cell by cell
ratio_between_groups(c, gmin, gmax) ==
    Returned(c.self, c.runs,
             [gmin EXCEPT !.cells =
                 [r \in 1..Len(gmin.cells) |->
                     [f \in 1..Len(gmin.cells[r]) |->
                         Div(gmin.cells[r][f], gmax.cells[r][f])]]],
             NoNames)

\* MetricFrame.ratio, after its cache check (outcome c)
ratio_then(c, method) ==
    IF c.raised # NoError THEN Raised(c.raised, c.self, c.runs)
    ELSE IF method = "between_groups"
    THEN ratio_between_groups(c, group_agg(c.self, "min").ret, group_agg(c.self, "max").ret)
    ELSE IF method = "to_overall"
    THEN Returned(c.self, c.runs,
             Across(c.self,
                    Combine(c.self.by_group, c.self.overall,
                            Len(c.self.cf_names.names), "div",
                            IF c.self.user_supplied_callable
                            THEN "min_inverse" ELSE "ratio_sub_one"),
                    Len(c.self.cf_names.names), "min"),
             NoNames)
    ELSE Raised("InvalidAggregationMethod", c.self, c.runs)

\* MetricFrame.ratio
ratio(slf, method) == ratio_then(ComputeIf(slf.by_group = NoTable, slf), method)

(***************************************************************************)
(* The callers' inputs. A batch is cut from a few fixed samples            *)
(* [yt, yp, sf, cf, w]: label, prediction, sensitive class, control class  *)
(* and sample weight; a variant says how the caller passes them.           *)
(***************************************************************************)
Sample(yt, yp, sf, cf, w) == [yt |-> yt, yp |-> yp, sf |-> sf, cf |-> cf, w |-> w]

Rows == { <<Sample(1, 1, 1, 1, 1)>>,
          <<Sample(0, 1, 2, 1, 2), Sample(1, 1, 1, 2, 1)>> }

Metrics == { Callable("count_correct"), Callable("needs_two_samples"),
             NamedMetrics(<<"acc">>, <<"count_correct">>) }

Methods == {"between_groups", "to_overall", "unknown"}

Variant(sf, cf, sp, yp) == [sf |-> sf, cf |-> cf, sp |-> sp, yp |-> yp]

\* the well-formed ways to pass a batch
GoodVariants == { Variant("list", "none", "none", "ok"),
                  Variant("list", "ok", "none", "ok"),
                  Variant("list", "none", "ok", "ok"),
                  Variant("Series", "none", "none", "ok") }

\* one argument is a sample too long, or the sample parameters use another key
BadVariants == { Variant("list", "long", "none", "ok"),
                 Variant("list", "none", "long", "ok"),
                 Variant("list", "none", "other", "ok"),
                 Variant("list", "none", "none", "long") }

Variants == GoodVariants \cup BadVariants

Column(rows, field) ==
    [i \in 1..Len(rows) |-> IF field = "yt" THEN rows[i].yt
                            ELSE IF field = "yp" THEN rows[i].yp
                            ELSE IF field = "sf" THEN rows[i].sf
                            ELSE IF field = "cf" THEN rows[i].cf
                            ELSE rows[i].w]

\* sample_params as the metric expects them: {param: array} for a callable,
\* {function name: {param: array}} for a dict of metrics
SampleParams(metric, key, weights) ==
    IF metric.kind = "callable" THEN Dict(<<key>>, <<PyList(weights)>>)
    ELSE Dict(metric.names, [j \in 1..Len(metric.names) |->
                                Dict(<<key>>, <<PyList(weights)>>)])

Batch(metric, rows, v) ==
    [y_true |-> PyList(Column(rows, "yt")),
     y_pred |-> PyList(Column(rows, "yp") \o (IF v.yp = "long" THEN <<1>> ELSE <<>>)),
     sensitive_features |->
         IF v.sf = "Series" THEN Series("sf", Column(rows, "sf"))
         ELSE PyList(Column(rows, "sf")),
     control_features |->
         IF v.cf = "none" THEN None
         ELSE PyList(Column(rows, "cf") \o (IF v.cf = "long" THEN <<1>> ELSE <<>>)),
     sample_params |->
         IF v.sp = "none" THEN None
         ELSE SampleParams(metric, IF v.sp = "other" THEN "other" ELSE "sample_weight",
                  Column(rows, "w") \o (IF v.sp = "long" THEN <<1>> ELSE <<>>))]

\* the arguments of the constructor: the data of a batch, or empty lists
\* (one of which may be left non-empty or None), with control_features None
\* or [] and sample_params None or a dict
InitArgs(metric) ==
    { Batch(metric, rows, v) : rows \in Rows, v \in Variants }
    \cup { [y_true |-> a[1], y_pred |-> a[2], sensitive_features |-> a[3],
            control_features |-> c, sample_params |-> p] :
             a \in { <<EmptyList, EmptyList, EmptyList>>,
                     <<PyList(<<1>>), EmptyList, EmptyList>>,
                     <<EmptyList, PyList(<<1>>), EmptyList>>,
                     <<EmptyList, EmptyList, PyList(<<1>>)>>,
                     <<None, EmptyList, EmptyList>> },
             c \in {None, EmptyList, PyList(<<1>>)},
             p \in {None, SampleParams(metric, "sample_weight", <<1>>)} }

(***************************************************************************)
(* The state machine: the arguments the constructor was called with        *)
(* (ctor), the frame it made (self), the outcome of the last call (last)   *)
(* and the number of complete engine runs since the last add_data that     *)
(* returned (engine_runs). What else the caller holds (caller) is nothing, *)
(* except where two frames are built over the caller's list objects.       *)
(***************************************************************************)
\* the caller holds no list object of the frame and no other frame
NoCaller == [objects |-> <<>>, refs |-> <<>>, other |-> NoFrame]

Outcome(op, arg, r) ==
    [op |-> op, arg |-> arg, raised |-> r.raised, runs |-> r.runs, ret |-> r.ret,
     names |-> r.names]

Constructed(metric, a, streaming, r) ==
    /\ ctor = [metric |-> metric, y_true |-> a.y_true, y_pred |-> a.y_pred,
               sensitive_features |-> a.sensitive_features,
               control_features |-> a.control_features,
               sample_params |-> a.sample_params, streaming |-> streaming]
    /\ self = r.self
    /\ last = Outcome("__init__", "", Raised(r.raised, r.self, IF r.ran THEN 1 ELSE 0))
    /\ engine_runs = IF r.ran THEN 1 ELSE 0

Construct(metric, a, streaming) ==
    /\ Constructed(metric, a, streaming,
                   init(metric, a.y_true, a.y_pred, a.sensitive_features,
                        a.control_features, a.sample_params, streaming))
    /\ caller = NoCaller

Init == \E metric \in Metrics, streaming \in BOOLEAN :
            \E a \in InitArgs(metric) : Construct(metric, a, streaming)

Added(r) ==
    /\ self.alive
    /\ self.streaming => PyLen(self.y_true) < MaxBatches
    /\ self' = r.self
    /\ last' = Outcome("add_data", "", Raised(r.raised, r.self, 0))
    /\ engine_runs' = IF r.raised = NoError THEN 0 ELSE engine_runs
    /\ UNCHANGED ctor

AddDataWith(b) ==
    /\ Added(add_data(self, b.y_true, b.y_pred, b.sensitive_features,
                      b.control_features, b.sample_params))
    /\ UNCHANGED caller

AddData == \E rows \in Rows, v \in Variants : AddDataWith(Batch(self.metric, rows, v))

Read(op, arg, r) ==
    /\ self.alive
    /\ engine_runs + r.runs <= MaxRuns
    /\ self' = r.self
    /\ last' = Outcome(op, arg, r)
    /\ engine_runs' = engine_runs + r.runs
    /\ UNCHANGED <<ctor, caller>>

ReadOverall == Read("overall", "", overall(self))

ReadByGroup == Read("by_group", "", by_group(self))

ReadControlLevels == Read("control_levels", "", control_levels(self))

ReadSensitiveLevels == Read("sensitive_levels", "", sensitive_levels(self))

GroupMax == Read("group_max", "", group_max(self))

GroupMin == Read("group_min", "", group_min(self))

Difference == \E method \in Methods : Read("difference", method, difference(self, method))

Ratio == \E method \in Methods : Read("ratio", method, ratio(self, method))

Next ==
    \/ AddData
    \/ ReadOverall
    \/ ReadByGroup
    \/ ReadControlLevels
    \/ ReadSensitiveLevels
    \/ GroupMax
    \/ GroupMin
    \/ Difference
    \/ Ratio

Spec == Init /\ [][Next]_vars

(***************************************************************************)
(* A dataset streamed in consecutive batches: a streaming frame is fed     *)
(* well-formed batches that all have one shape (the sensitive features of  *)
(* one type, control features in every batch exactly when the frame takes  *)
(* them, sample parameters in every batch or in none).                     *)
(***************************************************************************)
InitStream ==
    \E metric \in Metrics, cf \in {None, EmptyList} :
        Construct(metric, [y_true |-> EmptyList, y_pred |-> EmptyList,
                           sensitive_features |-> EmptyList,
                           control_features |-> cf, sample_params |-> None], TRUE)

SameShape(slf, v) ==
    /\ (v.cf = "ok") <=> ~IsNone(slf.c_f)
    /\ v.sp = "ok" => slf.metric.kind = "callable"
    /\ PyLen(slf.y_true) > 0 =>
          /\ (v.sp = "ok") <=> slf.s_p.type = "list"
          /\ slf.s_f.parts[1].type = v.sf

AddBatch ==
    \E rows \in Rows, v \in GoodVariants :
        SameShape(self, v) /\ AddDataWith(Batch(self.metric, rows, v))

NextStream ==
    \/ AddBatch
    \/ ReadOverall
    \/ ReadByGroup
    \/ ReadControlLevels
    \/ ReadSensitiveLevels
    \/ GroupMax
    \/ GroupMin
    \/ Difference
    \/ Ratio

SpecStream == InitStream /\ [][NextStream]_vars

(***************************************************************************)
(* Frames over a signed metric: a frame is constructed (not streaming)     *)
(* over two samples, one of each sensitive class, of one control class or  *)
(* of two, with labels and predictions in 0..MaxLabel, and a metric that   *)
(* sums prediction minus                                                   *)
(* label, as a single callable or as a dict of one function; its results   *)
(* are then read.                                                          *)
(***************************************************************************)
MaxLabel == 3

SignedRows ==
    { <<Sample(a, b, 1, 1, 1), Sample(c, d, 2, e, 1)>> :
        a \in 0..MaxLabel, b \in 0..MaxLabel, c \in 0..MaxLabel, d \in 0..MaxLabel,
        e \in {1, 2} }

SignedMetrics == { Callable("signed_error"), NamedMetrics(<<"err">>, <<"signed_error">>) }

InitSigned ==
    \E metric \in SignedMetrics, rows \in SignedRows, cf \in {"none", "ok"} :
        Construct(metric, Batch(metric, rows, Variant("list", cf, "none", "ok")), FALSE)

NextSigned ==
    \/ ReadOverall
    \/ ReadByGroup
    \/ GroupMax
    \/ GroupMin
    \/ Difference
    \/ Ratio

SpecSigned == InitSigned /\ [][NextSigned]_vars

(***************************************************************************)
(* Frames whose features are named: the sensitive features, and the        *)
(* control features when given, are DataFrames of one column whose name    *)
(* the caller chooses. A frame is constructed over such data, or           *)
(* constructed streaming and fed such batches, control features in every   *)
(* batch exactly when the frame takes them.                                *)
(***************************************************************************)
FeatureNameSet == {"a", "b"}

NamedBatch(rows, sf, cf) ==
    [y_true |-> PyList(Column(rows, "yt")),
     y_pred |-> PyList(Column(rows, "yp")),
     sensitive_features |-> DataFrame(sf, Column(rows, "sf")),
     control_features |-> IF cf = "" THEN None ELSE DataFrame(cf, Column(rows, "cf")),
     sample_params |-> None]

InitNamed ==
    \E metric \in Metrics :
        \/ \E cf \in {None, EmptyList} :
              Construct(metric, [y_true |-> EmptyList, y_pred |-> EmptyList,
                                 sensitive_features |-> EmptyList,
                                 control_features |-> cf, sample_params |-> None], TRUE)
        \/ \E rows \in Rows, sf \in FeatureNameSet, cf \in FeatureNameSet \cup {""} :
              Construct(metric, NamedBatch(rows, sf, cf), FALSE)

AddNamed ==
    \E rows \in Rows, sf \in FeatureNameSet, cf \in FeatureNameSet \cup {""} :
        /\ (cf = "") <=> IsNone(self.c_f)
        /\ AddDataWith(NamedBatch(rows, sf, cf))

NextNamed ==
    \/ AddNamed
    \/ ReadOverall
    \/ ReadByGroup
    \/ ReadControlLevels
    \/ ReadSensitiveLevels
    \/ GroupMax
    \/ GroupMin
    \/ Difference
    \/ Ratio

SpecNamed == InitNamed /\ [][NextNamed]_vars

(***************************************************************************)
(* Two streaming frames built over the caller's list objects. __init__     *)
(* keeps the sensitive_features and control_features arguments themselves  *)
(* (self._s_f = sensitive_features, self._c_f = control_features) and      *)
(* add_data appends to them in place, so these attributes are references:  *)
(* caller.objects are the list objects the caller made, caller.refs[1] and *)
(* caller.refs[2] say which of them the frame self and the frame           *)
(* caller.other were constructed with (0: None), and both frames are kept  *)
(* as their attributes read, _s_f and _c_f being the objects referred to.  *)
(* The caller makes the lists 1 and 2 for the first frame and constructs   *)
(* the second frame with the same lists or with the fresh lists 3 and 4.   *)
(***************************************************************************)
Ref(sf, cf) == [s_f |-> sf, c_f |-> cf]

\* the frame as its attributes read, given the list objects
Deref(frame, ref, objects) ==
    [frame EXCEPT !.s_f = objects[ref.s_f],
                  !.c_f = IF ref.c_f = 0 THEN None ELSE objects[ref.c_f]]

\* the list objects after a call on the frame with these references left
\* the frame as given: list.append acts on the object
Mutated(objects, ref, frame) ==
    [i \in 1..Len(objects) |-> IF i = ref.s_f THEN frame.s_f
                               ELSE IF i = ref.c_f THEN frame.c_f
                               ELSE objects[i]]

InitShared ==
    \E metric \in Metrics, cf \in {None, EmptyList}, sf2 \in {1, 3}, cf2 \in {2, 4} :
        /\ Constructed(metric, [y_true |-> EmptyList, y_pred |-> EmptyList,
                                sensitive_features |-> EmptyList,
                                control_features |-> cf, sample_params |-> None], TRUE,
                       init(metric, EmptyList, EmptyList, EmptyList, cf, None, TRUE))
        \* the second constructor call, with equal arguments, makes an equal frame
        /\ caller = [objects |-> <<EmptyList, cf, EmptyList, cf>>,
                     refs |-> <<Ref(1, IF IsNone(cf) THEN 0 ELSE 2),
                                Ref(sf2, IF IsNone(cf) THEN 0 ELSE cf2)>>,
                     other |-> self]

SharedBatches(frame) ==
    { Batch(frame.metric, rows, Variant("list", IF IsNone(frame.c_f) THEN "none" ELSE "ok", "none", "ok")) : rows \in Rows }

\* add_data on the frame self
AddDataSelf ==
    \E b \in SharedBatches(self) :
        /\ Added(add_data(self, b.y_true, b.y_pred, b.sensitive_features,
                          b.control_features, b.sample_params))
        /\ caller' = [caller EXCEPT
                         !.objects = Mutated(@, caller.refs[1], self'),
                         !.other = Deref(@, caller.refs[2],
                                         Mutated(caller.objects, caller.refs[1], self'))]

OtherAdded(r) ==
    /\ self.alive
    /\ PyLen(caller.other.y_true) < MaxBatches
    /\ caller' = [caller EXCEPT !.objects = Mutated(@, caller.refs[2], r.self),
                                !.other = r.self]
    /\ self' = Deref(self, caller.refs[1], caller'.objects)
    /\ last' = Outcome("add_data", "other", Raised(r.raised, r.self, 0))
    /\ UNCHANGED <<ctor, engine_runs>>

\* add_data on the frame caller.other
AddDataOther ==
    \E b \in SharedBatches(caller.other) :
        OtherAdded(add_data(caller.other, b.y_true, b.y_pred, b.sensitive_features,
                            b.control_features, b.sample_params))

NextShared ==
    \/ AddDataSelf
    \/ AddDataOther
    \/ ReadOverall
    \/ ReadByGroup

SpecShared == InitShared /\ [][NextShared]_vars

(***************************************************************************)
(* The states of a frame.                                                  *)
(***************************************************************************)
ReadOps == {"overall", "by_group", "control_levels", "sensitive_levels",
            "group_max", "group_min", "difference", "ratio"}

\* EMPTY: a streaming frame that holds no batch
Empty(slf) == slf.alive /\ slf.streaming /\ PyLen(slf.y_true) = 0

\* COMPUTED: both caches are present
Computed(slf) == slf.alive /\ slf.overall # NoTable /\ slf.by_group # NoTable

\* the buffers and the caches of a frame
Buffers(slf) == <<slf.y_true, slf.y_pred, slf.s_f, slf.c_f, slf.s_p>>

Caches(slf) == <<slf.overall, slf.by_group>>

(***************************************************************************)
(* C4                                                                      *)
(***************************************************************************)
CachedReadOps == ReadOps \ {"sensitive_levels"}

C8_NonStreamingStaysComputed ==
    [][(self.alive /\ ~self.streaming) =>
          /\ Computed(self)
          /\ self' = self
          /\ last'.op = "add_data" => last'.raised = "StateError"
          /\ last'.op \in ReadOps => last'.runs = 0]_vars

\* add_data was called on a non-streaming frame
C8_Witness ==
    /\ self.alive /\ ~self.streaming /\ Computed(self)
    /\ last.op = "add_data" /\ last.raised = "StateError"

(***************************************************************************)
(* C9                                                                      *)
(***************************************************************************)
\* C9: on a streaming frame that holds no batch every read accessor raises
\* the empty-data error and leaves the frame empty, both caches absent.
C9_EmptyFrameReadsRaise ==
    [][(Empty(self) /\ last'.op \in ReadOps) =>
          /\ last'.raised = "EmptyData"
          /\ Empty(self')
          /\ self'.overall = NoTable /\ self'.by_group = NoTable]_vars

\* difference() was called on an empty streaming frame
C9_Witness ==
    /\ Empty(self) /\ Caches(self) = <<NoTable, NoTable>>
    /\ last.op = "difference" /\ last.raised = "EmptyData"

(***************************************************************************)
(* C10                                                                     *)
(***************************************************************************)
StartsEmpty(x) == ~IsNone(x) /\ PyLen(x) = 0

\* C10: with streaming=True the constructor makes a frame exactly when
\* y_true, y_pred and sensitive_features are empty and control_features is
\* None or empty; otherwise it raises the non-empty-init error and there is
\* no frame; the frame it makes holds no batch and has both caches absent.
C10_StreamingConstruction ==
    ctor.streaming =>
        /\ self.alive <=> /\ StartsEmpty(ctor.y_true)
                          /\ StartsEmpty(ctor.y_pred)
                          /\ StartsEmpty(ctor.sensitive_features)
                          /\ \/ IsNone(ctor.control_features)
                             \/ StartsEmpty(ctor.control_features)
        /\ ~self.alive => last.op = "__init__" /\ last.raised = "NonEmptyInit"
        /\ (self.alive /\ last.op = "__init__") =>
              /\ Empty(self)
              /\ PyLen(self.y_pred) = 0 /\ PyLen(self.s_f) = 0
              /\ self.overall = NoTable /\ self.by_group = NoTable

\* the constructor refused non-empty control features alone
C10_Witness ==
    /\ ctor.streaming /\ ~self.alive /\ last.raised = "NonEmptyInit"
    /\ ctor.y_true = EmptyList /\ ctor.y_pred = EmptyList
    /\ ctor.sensitive_features = EmptyList
    /\ PyLen(ctor.control_features) > 0

(***************************************************************************)
(* C1                                                                      *)
(***************************************************************************)
\* C1: an add_data call that raises leaves the y_true, y_pred, sensitive
\* feature, control feature and sample parameter buffers and both caches as
\* they were before the call.
C1_FailedAddDataKeepsState ==
    [][(last'.op = "add_data" /\ last'.raised # NoError) =>
          /\ Buffers(self') = Buffers(self)
          /\ Caches(self') = Caches(self)]_vars

(***************************************************************************)
(* C2                                                                      *)
(***************************************************************************)
IsResultOf(fresh) == fresh.raised = NoError /\ Caches(fresh.self) = Caches(self)

\* C2: in a streaming frame the two caches are both absent or both present,
\* and when present they are the engine's result over the batches the
\* buffers hold.
C2_CachesFreshOrAbsent ==
    (self.alive /\ self.streaming) =>
        /\ self.overall = NoTable <=> self.by_group = NoTable
        /\ self.overall # NoTable => IsResultOf(compute_streaming_metric(self))

(***************************************************************************)
(* C3                                                                      *)
(***************************************************************************)
JoinData(batches) == Flatten([i \in 1..Len(batches.parts) |-> batches.parts[i].data])

\* the whole dataset the buffered batches were cut from, as the caller would
\* pass it to the constructor
Whole(slf) ==
    [y_true |-> PyList(JoinData(slf.y_true)),
     y_pred |-> PyList(JoinData(slf.y_pred)),
     sensitive_features |->
         IF slf.s_f.parts[1].type = "Series"
         THEN Series(slf.s_f.parts[1].name, JoinData(slf.s_f))
         ELSE PyList(JoinData(slf.s_f)),
     control_features |->
         IF IsNone(slf.c_f) THEN None ELSE PyList(JoinData(slf.c_f)),
     sample_params |->
         IF IsNone(slf.s_p) THEN None
         ELSE SampleParams(slf.metric, "sample_weight",
                  Flatten([i \in 1..Len(slf.s_p.parts) |->
                              slf.s_p.parts[i].parts[1].data]))]

NonStreaming(slf) ==
    LET w == Whole(slf)
    IN  init(slf.metric, w.y_true, w.y_pred, w.sensitive_features,
             w.control_features, w.sample_params, FALSE)

\* when the constructor made the frame ref, the last read returned, and the
\* frame has the caches, and the read the result, of ref
SameResults(ref) ==
    ref.raised = NoError =>
        /\ last.raised = NoError
        /\ Caches(self) = Caches(ref.self)
        /\ last.ret = IF last.op = "overall" THEN overall(ref.self).ret
                      ELSE by_group(ref.self).ret

\* C3: after a dataset was fed to a streaming frame in consecutive batches,
\* overall and by_group are read without error and equal those of the
\* non-streaming frame constructed on the whole dataset, when there is one.
C3_StreamingEqualsNonStreaming ==
    (self.alive /\ PyLen(self.y_true) >= 1 /\ last.op \in {"overall", "by_group"}) =>
        SameResults(NonStreaming(self))

(***************************************************************************)
(* C5                                                                      *)
(***************************************************************************)
\* C5: on a streaming frame whose caches add_data has just reset, a read of
\* overall, by_group, control_levels or sensitive_levels that returns has
\* recomputed: both caches are present after it.
C5_ReadRecomputes ==
    [][(/\ self.alive /\ self.streaming /\ ~Empty(self)
        /\ last.op = "add_data" /\ last.raised = NoError
        /\ self.overall = NoTable /\ self.by_group = NoTable
        /\ last'.op \in {"overall", "by_group", "control_levels", "sensitive_levels"}
        /\ last'.raised = NoError)
       => Computed(self')]_vars

(***************************************************************************)
(* C6                                                                      *)
(***************************************************************************)
\* C6: on a frame constructed with control_features=None an add_data that
\* passes control features raises the control-feature usage error; on a
\* frame constructed with control_features=[] an add_data that passes none
\* raises it too, and buffers nothing.
C6_ControlFeatureUsageChecked ==
    [][\A rows \in Rows, v \in Variants :
          (/\ self.alive /\ self.streaming /\ v.yp = "ok"
           /\ AddDataWith(Batch(self.metric, rows, v)))
          => /\ (IsNone(self.c_f) /\ v.cf # "none") =>
                    last'.raised = "InconsistentControlFeatureUsage"
             /\ (~IsNone(self.c_f) /\ v.cf = "none") =>
                    /\ last'.raised = "InconsistentControlFeatureUsage"
                    /\ Buffers(self') = Buffers(self)]_vars

(***************************************************************************)
(* C7                                                                      *)
(***************************************************************************)
\* the keys of a sample_params dict, and of the dicts it holds
KeysOf(d) == <<d.keys, [j \in 1..Len(d.parts) |-> d.parts[j].keys]>>

\* C7: once a streaming frame holds a batch, an add_data raises the
\* sample-parameter usage error when it passes sample_params and the
\* earlier batches had none, when it passes none and the earlier batches
\* had them, and when its keys differ from those of the earlier batches.
C7_SampleParamsAllOrNothing ==
    [][\A rows \in Rows, v \in Variants :
          (/\ self.alive /\ self.streaming /\ PyLen(self.y_true) >= 1
           /\ IsNone(ctor.sample_params)
           /\ v.yp = "ok" /\ v.sp # "long" /\ ((v.cf = "ok") <=> ~IsNone(self.c_f))
           /\ AddDataWith(Batch(self.metric, rows, v)))
          => LET sp == Batch(self.metric, rows, v).sample_params
             IN  /\ (IsNone(self.s_p) /\ ~IsNone(sp)) =>
                        last'.raised = "InconsistentSampleParams"
                 /\ (self.s_p.type = "list" /\ IsNone(sp)) =>
                        last'.raised = "InconsistentSampleParams"
                 /\ (self.s_p.type = "list" /\ ~IsNone(sp)
                       /\ KeysOf(sp) # KeysOf(self.s_p.parts[1])) =>
                        last'.raised = "InconsistentSampleParams"]_vars

(***************************************************************************)
(* The dataset a streaming frame holds, read off its buffers sample by     *)
(* sample.                                                                 *)
(***************************************************************************)
NumSamples(slf) == Len(JoinData(slf.y_true))

\* the sample weights: those of the buffered sample parameters, or 1
Weights(slf) ==
    IF slf.s_p.type = "list"
    THEN Flatten([i \in 1..Len(slf.s_p.parts) |-> slf.s_p.parts[i].parts[1].data])
    ELSE [i \in 1..NumSamples(slf) |-> 1]

\* the samples of the row with the given key: k control classes (k is 0 or
\* 1), then the sensitive class
Members(slf, key, k) ==
    {i \in 1..NumSamples(slf) :
        /\ k = 1 => JoinData(slf.c_f)[i] = key[1]
        /\ JoinData(slf.s_f)[i] = key[Len(key)]}

\* the value of the frame's metric function on a set of samples
ValueOn(slf, samples) ==
    LET idx == SortedSeq(samples)
    IN  Value(SumSeq([j \in 1..Len(idx) |->
                IF JoinData(slf.y_true)[idx[j]] = JoinData(slf.y_pred)[idx[j]]
                THEN Weights(slf)[idx[j]] ELSE 0]))

\* the present values of column f in the by_group rows of a control stratum
PresentIn(slf, stratum, f) ==
    {slf.by_group.cells[r][f] :
        r \in {q \in 1..Len(slf.by_group.index) :
                  /\ SubSeq(slf.by_group.index[q], 1, Len(stratum)) = stratum
                  /\ ~slf.by_group.cells[q][f].nan}}

\* v is the greatest (agg = "max") or the least of the present values, or
\* absent when there is none
IsAggOf(v, present, agg) ==
    IF present = {} THEN v.nan
    ELSE /\ v \in present
         /\ \A w \in present : IF agg = "max" THEN Leq(w, v) ELSE Leq(v, w)

\* the control stratum of row r of a result (the only row without control
\* features)
StratumOf(ret, r, k) == IF k = 0 THEN <<>> ELSE ret.index[r]

(***************************************************************************)
(* C11                                                                     *)
(***************************************************************************)
\* C11: in a computed frame, a by_group cell whose row selects no sample is
\* absent and every other cell is the function's value on the samples of
\* its row; group_max and group_min return, per control stratum and
\* function, the greatest and the least of the present cells.
C11_EmptyCellsStayAbsent ==
    (Computed(self) /\ self.streaming) =>
        LET k == Len(self.cf_names.names)
            bg == self.by_group
        IN  /\ \A r \in 1..Len(bg.index), f \in 1..Len(bg.columns) :
                  bg.cells[r][f] =
                      IF Members(self, bg.index[r], k) = {} THEN NaN
                      ELSE ValueOn(self, Members(self, bg.index[r], k))
            /\ (last.op \in {"group_max", "group_min"} /\ last.raised = NoError) =>
                  \A r \in 1..Len(last.ret.cells) : \A f \in 1..Len(last.ret.cells[r]) :
                      IsAggOf(last.ret.cells[r][f],
                              PresentIn(self, StratumOf(last.ret, r, k), f),
                              IF last.op = "group_max" THEN "max" ELSE "min")

\* group_max() returned present values from a by_group with an absent cell
C11_Witness ==
    /\ Computed(self) /\ self.streaming
    /\ \E r \in 1..Len(self.by_group.index) : self.by_group.cells[r][1].nan
    /\ last.op = "group_max" /\ last.raised = NoError
    /\ \A r \in 1..Len(last.ret.cells) : ~last.ret.cells[r][1].nan

(***************************************************************************)
(* C12                                                                     *)
(***************************************************************************)
ShapedOps == {"overall", "by_group", "group_max", "group_min", "difference", "ratio"}

\* the shape of a result: its type and its function-name axis, given whether
\* the metric is a single callable and whether there are control features
HasShape(ret, op, callable, controlled, names) ==
    /\ ret.columns = IF callable THEN <<>> ELSE names
    /\ ret.type = IF op = "by_group"
                  THEN (IF callable THEN "Series" ELSE "DataFrame")
                  ELSE IF callable
                  THEN (IF controlled THEN "Series" ELSE "scalar")
                  ELSE (IF controlled THEN "DataFrame" ELSE "Series")

\* C12: every result that overall, by_group, group_max, group_min,
\* difference and ratio return has the shape that the kind of the metric
\* and the presence of control features determine: a single callable has no
\* function-name axis (a scalar, or a series over the control strata or the
\* rows), a named collection keeps it.
C12_ShapeFollowsMetricKind ==
    (self.alive /\ last.op \in ShapedOps /\ last.raised = NoError) =>
        HasShape(last.ret, last.op, ctor.metric.kind = "callable",
                 self.cf_names.names # <<>>, ctor.metric.names)

\* ratio('to_overall') of a named collection of one function, with control
\* features, returned a table
C12_Witness ==
    /\ self.alive /\ last.op = "ratio" /\ last.arg = "to_overall"
    /\ last.raised = NoError
    /\ ctor.metric.kind = "dict" /\ Len(ctor.metric.names) = 1
    /\ self.cf_names.names # <<>>
    /\ last.ret.type = "DataFrame" /\ last.ret.columns = ctor.metric.names

(***************************************************************************)
(* C13: ratio('to_overall').                                               *)
(***************************************************************************)
SameValue(a, b) == a.nan = b.nan /\ (~a.nan => a.num * b.den = b.num * a.den)

\* the smaller of r and 1 / r
Normalised(r) == IF Leq(Inverse(r), r) THEN Inverse(r) ELSE r

\* the ratios to the overall value of the by_group cells of column f in the
\* rows of a control stratum, absent cells left out
RatiosToOverall(slf, stratum, f) ==
    LET k == Len(slf.cf_names.names)
    IN  { Div(slf.by_group.cells[r][f],
              slf.overall.cells[AlignedRow(slf.overall, slf.by_group.index[r], k)][f]) :
            r \in {q \in 1..Len(slf.by_group.index) :
                     /\ SubSeq(slf.by_group.index[q], 1, k) = stratum
                     /\ ~slf.by_group.cells[q][f].nan} }

IsMinOf(v, present) ==
    IF present = {} THEN v.nan
    ELSE /\ \E w \in present : SameValue(v, w)
         /\ \A w \in present : Leq(v, w)

\* C13: ratio('to_overall') returns, for every function and every control
\* stratum whose ratios r of by-group value to overall value are all
\* non-zero, the minimum over the sensitive features of min(r, 1/r), which is
\* at most 1, for a single callable and for a named collection alike
C13_RatioToOverallNormalised ==
    (self.alive /\ last.op = "ratio" /\ last.arg = "to_overall" /\ last.raised = NoError) =>
        \A r \in 1..Len(last.ret.cells) : \A f \in 1..Len(last.ret.cells[r]) :
            LET ratios == RatiosToOverall(self,
                              StratumOf(last.ret, r, Len(self.cf_names.names)), f)
            IN  (\A x \in ratios : ~x.nan /\ x.num # 0) =>
                    /\ IsMinOf(last.ret.cells[r][f], {Normalised(x) : x \in ratios})
                    /\ ~last.ret.cells[r][f].nan => Leq(last.ret.cells[r][f], Value(1))

(***************************************************************************)
(* C14: difference('between_groups').                                      *)
(***************************************************************************)
\* C14: difference('between_groups') returns, for every function and every
\* control stratum, the largest non-absent by_group cell of the stratum
\* minus the smallest (absent when the stratum has none), which is what
\* group_max() and group_min() return there, and is never negative
C14_DifferenceIsMaxMinusMin ==
    (self.alive /\ last.op = "difference" /\ last.arg = "between_groups"
        /\ last.raised = NoError) =>
        \A r \in 1..Len(last.ret.cells) : \A f \in 1..Len(last.ret.cells[r]) :
            LET present == PresentIn(self,
                               StratumOf(last.ret, r, Len(self.cf_names.names)), f)
                v == last.ret.cells[r][f]
            IN  /\ IF present = {} THEN v.nan
                   ELSE \E hi \in present, lo \in present :
                           /\ IsAggOf(hi, present, "max")
                           /\ IsAggOf(lo, present, "min")
                           /\ SameValue(v, Sub(hi, lo))
                /\ SameValue(v, Sub(group_max(self).ret.cells[r][f],
                                    group_min(self).ret.cells[r][f]))
                /\ ~v.nan => Leq(Value(0), v)

C14_Witness ==
    /\ self.alive /\ last.op = "difference" /\ last.arg = "between_groups"
    /\ last.raised = NoError
    /\ ctor.metric.kind = "dict"
    /\ self.cf_names.names # <<>>
    /\ \E r \in 1..Len(self.by_group.cells) :
          ~self.by_group.cells[r][1].nan /\ self.by_group.cells[r][1].num < 0
    /\ \E r \in 1..Len(last.ret.cells) :
          ~last.ret.cells[r][1].nan /\ last.ret.cells[r][1].num > 0

(***************************************************************************)
(* C15: duplicate feature names.                                           *)
(***************************************************************************)
ColumnNames(buf) == {buf.parts[i].name : i \in 1..Len(buf.parts)}

\* the batches of a streaming frame give the sensitive and the control
\* feature one and the same name
Duplicated(slf) ==
    /\ slf.alive /\ slf.streaming /\ ~IsNone(slf.c_f)
    /\ \E n \in FeatureNameSet : ColumnNames(slf.s_f) = {n} /\ ColumnNames(slf.c_f) = {n}

\* a frame is being constructed, not streaming, over features of one name
DuplicatedAtInit ==
    /\ ~ctor.streaming
    /\ ctor.control_features.type = "DataFrame"
    /\ ctor.sensitive_features.name = ctor.control_features.name

\* a read that runs _compute_metric on a frame with duplicated names raises
\* the duplicate-feature-name error, whatever the metric function would do,
\* and leaves overall, by_group and func_dict as they were (absent)
RaisesDuplicateFirst ==
    (/\ Duplicated(self)
     /\ last'.op \in ReadOps
     /\ last'.op = "sensitive_levels" => self.sf_names.none) =>
        /\ last'.raised = "DuplicateFeatureName"
        /\ self'.overall = NoTable /\ self.overall = NoTable
        /\ self'.by_group = NoTable /\ self.by_group = NoTable
        /\ self'.func_dict = <<>>
        /\ last'.runs = 0 /\ engine_runs' = engine_runs

\* C15: when the sensitive and the control feature have the same name, the
\* computation (in the constructor, or at a read of a streaming frame)
\* raises the duplicate-feature-name error before a metric function is
\* called and before overall or by_group is assigned
C15_DuplicateNameRaisesFirst ==
    /\ [](DuplicatedAtInit =>
            /\ last.op = "__init__" /\ last.raised = "DuplicateFeatureName"
            /\ ~self.alive /\ engine_runs = 0)
    /\ [][RaisesDuplicateFirst]_vars

C15_Witness ==
    /\ Duplicated(self)
    /\ PyLen(self.y_true) = 1 /\ Len(JoinData(self.y_true)) = 1
    /\ self.metric = Callable("needs_two_samples")
    /\ last.op = "overall" /\ last.raised = "DuplicateFeatureName"
    /\ self.overall = NoTable /\ self.by_group = NoTable
    /\ ~self.sf_names.none

(***************************************************************************)
(* C16: isolation of frames.                                               *)
(***************************************************************************)
\* C16: add_data on one streaming frame leaves the buffers and the results
\* of the other frame as they were, and leaves the list objects the caller
\* passed to the constructors as they were
C16_FramesIsolated ==
    [][last'.op = "add_data" =>
          /\ last'.arg = "" => caller'.other = caller.other
          /\ last'.arg = "other" => self' = self
          /\ caller'.objects = caller.objects]_vars

\* add_data on a frame leaves the other frame as it was when the two were
\* constructed with different list objects
C16_DistinctObjectsIsolated ==
    [][(last'.op = "add_data" /\ caller.refs[1].s_f # caller.refs[2].s_f
           /\ (caller.refs[1].c_f = 0 \/ caller.refs[1].c_f # caller.refs[2].c_f)) =>
          /\ last'.arg = "" => caller'.other = caller.other
          /\ last'.arg = "other" => self' = self]_vars

(***************************************************************************)
(* C17: alignment of the buffers.                                          *)
(***************************************************************************)
\* the buffers in use hold one number of batches and one number of samples
Aligned(slf) ==
    /\ PyLen(slf.y_pred) = PyLen(slf.y_true)
    /\ PyLen(slf.s_f) = PyLen(slf.y_true)
    /\ Len(JoinData(slf.y_pred)) = Len(JoinData(slf.y_true))
    /\ Len(JoinData(slf.s_f)) = Len(JoinData(slf.y_true))
    /\ ~IsNone(slf.c_f) =>
          /\ PyLen(slf.c_f) = PyLen(slf.y_true)
          /\ Len(JoinData(slf.c_f)) = Len(JoinData(slf.y_true))
    /\ slf.s_p.type = "list" => PyLen(slf.s_p) = PyLen(slf.y_true)

\* C17: whatever add_data calls a streaming frame has received, returned or
\* raised, its y_true, y_pred and sensitive-feature buffers, its
\* control-feature buffer when it takes control features and its
\* sample-param buffer when it has one hold the same number of batches and
\* of samples
C17_BuffersAligned == (self.alive /\ self.streaming) => Aligned(self)

(***************************************************************************)
(* C18: the row masks of by_group.                                         *)
(***************************************************************************)
\* the control features of a computed streaming frame, as _compute_metric
\* passes them to the engine
ControlRows(slf) ==
    IF slf.cf_names.names = <<>> THEN <<>>
    ELSE process_features("control_feature_", concat_batches(slf.c_f).val,
                          concat_batches(slf.y_true).val).val

\* the features that make the rows of by_group: control features first
GroupRows(slf) ==
    ControlRows(slf)
    \o process_features("sensitive_feature_", concat_batches(slf.s_f).val,
                        concat_batches(slf.y_true).val).val

\* the values a buffered feature takes
ValuesOf(buf) == SeqToSet(JoinData(buf))

\* key a comes before key b in the row order: the first component counts most
Before(a, b) ==
    \E i \in 1..Len(a) : a[i] < b[i] /\ \A j \in 1..(i - 1) : a[j] = b[j]

\* C18: the rows of by_group are the cross-product of the classes of the
\* control feature (first) and of the sensitive feature, the first outermost;
\* the mask of a row selects the samples that have the row's class in every
\* feature; every sample is in the mask of exactly one row, so the sizes of
\* the masks sum to the number of samples; and the masks of the rows of a
\* control stratum together are the mask of that stratum in overall
C18_RowMasksPartition ==
    (Computed(self) /\ self.streaming) =>
        LET k == Len(self.cf_names.names)
            idx == self.by_group.index
            n == NumSamples(self)
            mask(r) == mask_from_tuple(idx[r], GroupRows(self))
        IN  /\ self.by_group.levels = self.cf_names.names \o self.sf_names.names
            /\ SeqToSet(idx) = IF k = 0 THEN {<<s>> : s \in ValuesOf(self.s_f)}
                               ELSE {<<c, s>> : c \in ValuesOf(self.c_f),
                                                s \in ValuesOf(self.s_f)}
            /\ \A r \in 1..(Len(idx) - 1) : Before(idx[r], idx[r + 1])
            /\ \A r \in 1..Len(idx) : mask(r) = Members(self, idx[r], k)
            /\ \A i \in 1..n : Cardinality({r \in 1..Len(idx) : i \in mask(r)}) = 1
            /\ SumSeq([r \in 1..Len(idx) |-> Cardinality(mask(r))]) = n
            /\ k # 0 =>
                  \A t \in 1..Len(self.overall.index) :
                      UNION {mask(r) : r \in {q \in 1..Len(idx) :
                                 SubSeq(idx[q], 1, k) = self.overall.index[t]}}
                      = mask_from_tuple(self.overall.index[t], ControlRows(self))

C18_Witness ==
    /\ Computed(self) /\ self.streaming
    /\ Len(self.cf_names.names) = 1
    /\ Len(self.by_group.index) = 4
    /\ NumSamples(self) = 3
    /\ \E r \in 1..4 : mask_from_tuple(self.by_group.index[r], GroupRows(self)) = {}
    /\ \E r \in 1..4 :
          Cardinality(mask_from_tuple(self.by_group.index[r], GroupRows(self))) = 1


====
